---- MODULE Spec2Model ----
(***************************************************************************)
(* A model of the tiberius client (src/src/client.rs): Client::connect,    *)
(* Client::query, Client::close and the RPC request assembly, over a       *)
(* Connection, a token stream and a result stream.  The Connection, the    *)
(* token stream and the result stream are not part of the sources at hand; *)
(* they are modelled from the design document (sections 3, 4.3, 4.4, 4.6   *)
(* and 7).                                                                 *)
(* The credentials of src/src/client/auth.rs (AuthMethod::sql_server and   *)
(* the Debug rendering of SqlServerAuth) are modelled on their own.        *)
(***************************************************************************)
EXTENDS Integers, Sequences, FiniteSets, TLC

VARIABLES
    conn,     \* the Connection<S>: state, context, and its transport
    client,   \* "none" | "live" | "closed" | "blocked": the Client value
    stream,   \* the QueryStream borrowed from the client, or NoStream
    last,     \* record of the last Client::query call and of how its
              \* result stream ended (history)
    rpc,      \* the last RPC request assembled (history)
    auth      \* two AuthMethod values and their Debug renderings

vars == <<conn, client, stream, last, rpc, auth>>

\* ------------------------------------------------------------------ bounds
MaxQueries == 3
MaxParams == 3
MaxUserLen == 2

\* --------------------------------------------------------------- tokens
\* A token of a response: its kind and, for EnvironmentChange, the new
\* transaction descriptor.  "DoneMore" is a Done that closes a result set
\* with more to follow; "Done" is the terminal Done of the response.
Tok(ty, val) == [ty |-> ty, val |-> val]

InitialDescriptor == 0

\* The response scripts a server may answer a request with.
ResponseShapes ==
    { << Tok("CM", 0), Tok("Row", 0), Tok("Done", 0) >>,
      << Tok("CM", 0), Tok("Row", 0), Tok("Env", 1), Tok("Done", 0) >>,
      << Tok("Env", 2), Tok("CM", 0), Tok("Row", 0), Tok("Done", 0) >>,
      << Tok("CM", 0), Tok("Err", 0), Tok("Row", 0), Tok("Err", 0),
         Tok("Done", 0) >>,
      << Tok("Err", 0), Tok("Done", 0) >>,
      << Tok("Info", 0), Tok("CM", 0), Tok("DoneMore", 0),
         Tok("CM", 0), Tok("Row", 0), Tok("Done", 0) >>,
      << Tok("Done", 0) >> }

\* The tokens the server puts on the wire for request q: each token carries
\* (for the checks only) the request it answers and its position.
ServerResponse(q, shape) ==
    [i \in 1..Len(shape) |->
        [q |-> q, i |-> i, ty |-> shape[i].ty, val |-> shape[i].val]]

\* ------------------------------------------------------ connection context
PacketIdRange == 256

\* Context::next_packet_id: the id to use, and the context after taking it.
next_packet_id(c) ==
    [id |-> c.packet_id,
     c  |-> [c EXCEPT !.packet_id = (c.packet_id + 1) % PacketIdRange]]

\* Context::transaction_descriptor
transaction_descriptor(c) == c.transaction_descriptor

\* The packet size the login negotiates.
NegotiatedPacketSize == 4096

\* Connection::context: the Connection Context held by connection c.
Context(c) ==
    [packet_id |-> c.packet_id, packet_size |-> c.packet_size,
     transaction_descriptor |-> c.transaction_descriptor]

\* ------------------------------------------------------------ reading
\* First position in toks holding a token whose kind is in stops, 0 if none.
FirstOf(toks, stops) ==
    LET hits == {i \in 1..Len(toks) : toks[i].ty \in stops}
    IN  IF hits = {} THEN 0 ELSE CHOOSE i \in hits : \A j \in hits : i <= j

\* A variant of ReadTokens that never marks the connection Ready.
ReadTokens_NeverReady(c, n) ==
    LET toks == SubSeq(c.inbound, 1, n)
        envs == {i \in 1..n : toks[i].ty = "Env"}
        le   == CHOOSE i \in envs : \A j \in envs : j <= i
    IN  IF n = 0 THEN c
        ELSE [c EXCEPT
                !.inbound = SubSeq(c.inbound, n + 1, Len(c.inbound)),
                !.wire = c.wire \o
                    [i \in 1..n |-> [op |-> "r", q |-> toks[i].q, i |-> toks[i].i,
                                     td |-> 0, id |-> 0]],
                !.transaction_descriptor =
                    IF envs = {} THEN c.transaction_descriptor ELSE toks[le].val,
                !.state = "Busy"]

\* The connection after the first n inbound tokens were read and processed:
\* each read is recorded on the wire log, an EnvironmentChange updates the
\* context, and the connection is Ready exactly when the last token read is
\* the terminal Done of a response.
ReadTokens(c, n) ==
    LET toks == SubSeq(c.inbound, 1, n)
        envs == {i \in 1..n : toks[i].ty = "Env"}
        le   == CHOOSE i \in envs : \A j \in envs : j <= i
    IN  IF n = 0 THEN c
        ELSE [c EXCEPT
                !.inbound = SubSeq(c.inbound, n + 1, Len(c.inbound)),
                !.wire = c.wire \o
                    [i \in 1..n |-> [op |-> "r", q |-> toks[i].q, i |-> toks[i].i,
                                     td |-> 0, id |-> 0]],
                !.transaction_descriptor =
                    IF envs = {} THEN c.transaction_descriptor ELSE toks[le].val,
                !.state = IF toks[n].ty = "Done" THEN "Ready" ELSE "Busy"]

\* A fatal transport or protocol error: the connection is Closed.
Fatal(c) == [c EXCEPT !.state = "Closed"]

\* ------------------------------------------- Connection (design 4.4, 4.6)
\* The connection before Connection::connect took the transport.
Disconnected ==
    [state |-> "Disconnected", packet_id |-> 0, packet_size |-> 0,
     transaction_descriptor |-> InitialDescriptor,
     inbound |-> << >>, wire |-> << >>, served |-> << >>,
     login |-> "none", released |-> FALSE]

\* What the server and the transport do during the handshake: the pre-login
\* exchange, the optional TLS negotiation, and the answer to the login.
HandshakeScripts ==
    [prelogin : {"ok", "fail"}, tls : {"none", "ok", "fail"},
     login : {"LoginAck", "Error", "fail"}]

\* Connection::connect: Disconnected -> PreLogin -> (TlsNegotiating) ->
\* LoginSent -> Ready.  Each message sent takes a packet id.  A failing step
\* or an Error token in the login response ends the attempt: the connection
\* is Closed and the transport released.
Connection_connect(c, hs) ==
    LET p1 == next_packet_id(c).c
        p2 == next_packet_id(p1).c
        failed(x, tok) == [ok |-> FALSE,
                           c  |-> [x EXCEPT !.state = "Closed", !.login = tok,
                                            !.released = TRUE]]
    IN  IF hs.prelogin = "fail" THEN failed(p1, "none")
        ELSE IF hs.tls = "fail" THEN failed(p1, "none")
        ELSE IF hs.login = "fail" THEN failed(p2, "none")
        ELSE IF hs.login = "Error" THEN failed(p2, "Error")
        ELSE [ok |-> TRUE,
              c  |-> [p2 EXCEPT !.state = "Ready", !.login = "LoginAck",
                                !.packet_size = NegotiatedPacketSize]]

\* A variant of flush_stream that does not look at the Closed state.
flush_stream_NoClosedCheck(c, fault) ==
    LET n == FirstOf(c.inbound, {"Done"})
    IN  IF c.state = "Ready"
          THEN [ok |-> TRUE, blocked |-> FALSE, drained |-> 0, c |-> c]
        ELSE IF n = 0
          THEN [ok |-> FALSE, blocked |-> TRUE, drained |-> 0, c |-> c]
        ELSE [ok |-> TRUE, blocked |-> FALSE, drained |-> n,
              c |-> ReadTokens(c, n)]

\* Connection::flush_stream: drains what is left of the response in flight.
\* Closed: fails at once.  Ready: nothing is pending, returns without
\* reading.  Busy: reads and processes tokens up to the terminal Done; a
\* transport failure while reading is fatal.  blocked: the drain waits for
\* bytes that never arrive.
flush_stream(c, fault) ==
    LET n == FirstOf(c.inbound, {"Done"})
    IN  IF c.state = "Closed"
          THEN [ok |-> FALSE, blocked |-> FALSE, drained |-> 0, c |-> c]
        ELSE IF c.state = "Ready"
          THEN [ok |-> TRUE, blocked |-> FALSE, drained |-> 0, c |-> c]
        ELSE IF fault = "flush"
          THEN [ok |-> FALSE, blocked |-> FALSE, drained |-> 0, c |-> Fatal(c)]
        ELSE IF n = 0
          THEN [ok |-> FALSE, blocked |-> TRUE, drained |-> 0, c |-> c]
        ELSE [ok |-> TRUE, blocked |-> FALSE, drained |-> n,
              c |-> ReadTokens(c, n)]

\* Connection::send: writes one request; the connection is Busy until the
\* terminal Done of its response is read.  Closed: fails at once, writing
\* nothing.  A transport failure is fatal.  The server answers the request
\* it received with the response resp.
send(c, id, req, resp, fault) ==
    LET q == Len(c.served) + 1
    IN  IF c.state = "Closed" THEN [ok |-> FALSE, c |-> c]
        ELSE IF fault = "send" THEN [ok |-> FALSE, c |-> Fatal(c)]
        ELSE [ok |-> TRUE,
              c  |-> [c EXCEPT
                        !.state = "Busy",
                        !.wire = Append(c.wire,
                            [op |-> "w", q |-> q, i |-> 0,
                             td |-> req.transaction_descriptor, id |-> id]),
                        !.served = Append(c.served, ServerResponse(q, resp)),
                        !.inbound = c.inbound \o ServerResponse(q, resp)]]

\* Connection::close: a shutdown notice is sent when the transport is
\* healthy; the transport is released whether or not that send succeeds.
Connection_close(c, fault) ==
    LET noticed == c.state # "Closed" /\ fault # "send"
    IN  [ok |-> noticed,
         c  |-> [c EXCEPT
                   !.wire = IF noticed
                            THEN Append(c.wire, [op |-> "x", q |-> 0, i |-> 0,
                                                 td |-> 0, id |-> 0])
                            ELSE c.wire,
                   !.state = "Closed", !.released = TRUE]]

\* ------------------------------------- token stream and result stream
NoStream ==
    [q |-> 0, seen |-> << >>, errors |-> 0, infos |-> 0, status |-> "none"]

\* TokenStream::new / QueryStream::new over the connection, for request q.
QueryStream_new(q) ==
    [q |-> q, seen |-> << >>, errors |-> 0, infos |-> 0, status |-> "open"]

\* One advance of the result stream: tokens are read in wire order up to the
\* next token whose kind is in stops.  Error and Info tokens are collected;
\* the errors are raised at the terminal Done.  A transport failure is fatal
\* to the connection.
Advance(c, st, stops, fault) ==
    LET n    == FirstOf(c.inbound, stops)
        toks == SubSeq(c.inbound, 1, n)
        errs == st.errors + Cardinality({i \in 1..n : toks[i].ty = "Err"})
        infs == st.infos + Cardinality({i \in 1..n : toks[i].ty = "Info"})
        end  == toks[n].ty = "Done"
    IN  IF fault = "read"
          THEN [ok |-> FALSE, blocked |-> FALSE, err |-> "transport",
                c |-> Fatal(c), stream |-> [st EXCEPT !.status = "failed"]]
        ELSE IF n = 0
          THEN [ok |-> FALSE, blocked |-> TRUE, err |-> "none",
                c |-> c, stream |-> st]
        ELSE [ok |-> ~(end /\ errs > 0), blocked |-> FALSE,
              err |-> IF end /\ errs > 0 THEN "server" ELSE "none",
              c |-> ReadTokens(c, n),
              stream |-> [st EXCEPT
                            !.seen = st.seen \o toks,
                            !.errors = errs,
                            !.infos = infs,
                            !.status = IF ~end THEN "open"
                                       ELSE IF errs > 0 THEN "error"
                                       ELSE "done"]]

\* QueryStream::forward_to_metadata: advances to the first column metadata
\* (or to the end of a response that has none).
forward_to_metadata(c, st, fault) == Advance(c, st, {"CM", "Done"}, fault)

\* The consumer's pull on the result stream: the next metadata or row, or
\* the end of the response.
try_next(c, st, fault) == Advance(c, st, {"CM", "Row", "Done"}, fault)

\* ------------------------------------------------ request assembly
\* ColumnData values (the result of ToSql::to_sql on a bound value).
I32(v) == [ty |-> "I32", i |-> v, s |-> ""]
Bit(v) == [ty |-> "Bit", i |-> v, s |-> ""]
String(x) == [ty |-> "String", i |-> 0, s |-> x]

\* ColumnData::type_name: the SQL type name of a value's wire type.
type_name(v) ==
    CASE v.ty = "I32" -> "int"
      [] v.ty = "Bit" -> "bit"
      [] v.ty = "String" -> "nvarchar(4000)"

RpcParam(name, value) == [name |-> name, flags |-> {}, value |-> value]

\* Client::rpc_params
rpc_params(query) ==
    << RpcParam("stmt", String(query)), RpcParam("params", I32(0)) >>

\* Variants of the two format! calls of the loop: a 0-based name, and a
\* separator pushed in every round.
ParamName_ZeroBased(i) == "@P" \o ToString(i)

ParamSig_AlwaysComma(i, param_str, param) ==
    param_str \o "," \o "@P" \o ToString(i + 1) \o " " \o type_name(param)

\* format!("@P{}", i + 1), i the 0-based position of the bound value
ParamName(i) == "@P" \o ToString(i + 1)

\* One round of the loop on param_str: the separator, "@P<i+1> ", the type.
ParamSig(i, param_str, param) ==
    (IF i > 0 THEN param_str \o "," ELSE param_str)
        \o "@P" \o ToString(i + 1) \o " " \o type_name(param)

\* The loop of rpc_perform_query over params.enumerate(), from position i.
RECURSIVE ParamLoop(_, _, _, _)
ParamLoop(i, params, param_str, rpcs) ==
    IF i >= Len(params) THEN [param_str |-> param_str, rpc_params |-> rpcs]
    ELSE ParamLoop(i + 1, params,
                   ParamSig(i, param_str, params[i + 1]),
                   Append(rpcs, RpcParam(ParamName(i), params[i + 1])))

\* rpc_params.iter_mut().find(|x| x.name == "params"): the first parameter
\* named "params" gets the signature string as its value.
SetParams(rpcs, param_str) ==
    LET hits == {j \in 1..Len(rpcs) : rpcs[j].name = "params"}
        j0   == CHOOSE j \in hits : \A k \in hits : j <= k
    IN  IF hits = {} THEN rpcs
        ELSE [rpcs EXCEPT ![j0].value = String(param_str)]

\* TokenRpcRequest::new
TokenRpcRequest(proc_id, rpcs, td) ==
    [proc_id |-> proc_id, params |-> rpcs, transaction_descriptor |-> td]

NoRequest == TokenRpcRequest("none", << >>, 0)

\* The parameter list rpc_perform_query assembles (before the send).
AssembleParams(rpcs, params) ==
    LET l == ParamLoop(0, params, "", rpcs)
    IN  SetParams(l.rpc_params, l.param_str)

\* A variant of the assembly that takes the packet id while it builds the
\* request.
AssembleRequest_TakesPacketId(c, proc_id, rpcs, params) ==
    [c   |-> next_packet_id(c).c,
     req |-> TokenRpcRequest(proc_id, AssembleParams(rpcs, params),
                             transaction_descriptor(c))]

\* rpc_perform_query up to TokenRpcRequest::new: the request, and the
\* connection as the assembly leaves it (it only reads the descriptor).
AssembleRequest(c, proc_id, rpcs, params) ==
    [c   |-> c,
     req |-> TokenRpcRequest(proc_id, AssembleParams(rpcs, params),
                             transaction_descriptor(c))]

\* A variant of rpc_perform_query that advances the packet-id counter only
\* after a successful send.
rpc_perform_query_IdAfterSend(c, proc_id, rpcs, params, resp, fault) ==
    LET a   == AssembleRequest(c, proc_id, rpcs, params)
        req == a.req
        s   == send(a.c, a.c.packet_id, req, resp, fault)
    IN  [ok |-> s.ok, c |-> IF s.ok THEN next_packet_id(s.c).c ELSE s.c,
         req |-> req, id |-> a.c.packet_id]

\* A variant of rpc_perform_query that takes a packet id twice.
rpc_perform_query_TwoIds(c, proc_id, rpcs, params, resp, fault) ==
    LET a   == AssembleRequest(c, proc_id, rpcs, params)
        req == a.req
        np0 == next_packet_id(a.c)
        np  == next_packet_id(np0.c)
        s   == send(np.c, np.id, req, resp, fault)
    IN  [ok |-> s.ok, c |-> s.c, req |-> req, id |-> np.id]

\* Client::rpc_perform_query
rpc_perform_query(c, proc_id, rpcs, params, resp, fault) ==
    LET a   == AssembleRequest(c, proc_id, rpcs, params)
        req == a.req
        np  == next_packet_id(a.c)
        s   == send(np.c, np.id, req, resp, fault)
    IN  [ok |-> s.ok, c |-> s.c, req |-> req, id |-> np.id]

\* --------------------------------------------------------------- Client
\* A variant of Client::connect that builds the Client whatever the
\* handshake returned.
Client_connect_IgnoreError(c, hs) ==
    LET r == Connection_connect(c, hs)
    IN  [ok |-> TRUE, c |-> r.c, client |-> "live"]

\* Client::connect: a Client exists only when Connection::connect succeeded.
Client_connect(c, hs) ==
    LET r == Connection_connect(c, hs)
    IN  [ok |-> r.ok, c |-> r.c, client |-> IF r.ok THEN "live" ELSE "none"]

\* What one call of Client::query did.
Outcome(res, err, c, st, drained, sent, req, parsed) ==
    [res |-> res, err |-> err, c |-> c, stream |-> st, drained |-> drained,
     sent |-> sent, req |-> req, parsed |-> parsed]

\* Variants of Client::query: without the drain, with the transaction
\* descriptor read before the drain, and with the error of
\* forward_to_metadata dropped.
query_NoFlush(c, text, params, resp, fault) ==
    LET r == rpc_perform_query(c, "ExecuteSQL", rpc_params(text), params,
                               resp, fault)
        m == forward_to_metadata(r.c, QueryStream_new(Len(r.c.served)), fault)
    IN  IF ~r.ok
          THEN Outcome("err", IF c.state = "Closed" THEN "closed" ELSE "transport",
                       r.c, NoStream, 0, FALSE, r.req, << >>)
        ELSE IF m.blocked
          THEN Outcome("blocked", "none", m.c, NoStream, 0, TRUE, r.req,
                       m.stream.seen)
        ELSE IF ~m.ok
          THEN Outcome("err", m.err, m.c, NoStream, 0, TRUE, r.req, m.stream.seen)
        ELSE Outcome("ok", "none", m.c, m.stream, 0, TRUE, r.req, m.stream.seen)

query_DescriptorBeforeFlush(c, text, params, resp, fault) ==
    LET f == flush_stream(c, fault)
        stale == [f.c EXCEPT !.transaction_descriptor = transaction_descriptor(c)]
        r0 == rpc_perform_query(stale, "ExecuteSQL", rpc_params(text), params,
                                resp, fault)
        r == [r0 EXCEPT !.c.transaction_descriptor = transaction_descriptor(f.c)]
        m == forward_to_metadata(r.c, QueryStream_new(Len(r.c.served)), fault)
    IN  IF f.blocked
          THEN Outcome("blocked", "none", f.c, NoStream, 0, FALSE, NoRequest, << >>)
        ELSE IF ~f.ok
          THEN Outcome("err", IF c.state = "Closed" THEN "closed" ELSE "transport",
                       f.c, NoStream, f.drained, FALSE, NoRequest, << >>)
        ELSE IF ~r.ok
          THEN Outcome("err", "transport", r.c, NoStream, f.drained, FALSE,
                       r.req, << >>)
        ELSE IF m.blocked
          THEN Outcome("blocked", "none", m.c, NoStream, f.drained, TRUE, r.req,
                       m.stream.seen)
        ELSE IF ~m.ok
          THEN Outcome("err", m.err, m.c, NoStream, f.drained, TRUE, r.req,
                       m.stream.seen)
        ELSE Outcome("ok", "none", m.c, m.stream, f.drained, TRUE, r.req,
                     m.stream.seen)

\* A variant of query without the ? on flush_stream: a failed drain is
\* followed by the request all the same.
query_IgnoreFlushError(c, text, params, resp, fault) ==
    LET f == flush_stream(c, fault)
        r == rpc_perform_query(f.c, "ExecuteSQL", rpc_params(text), params,
                               resp, fault)
        m == forward_to_metadata(r.c, QueryStream_new(Len(r.c.served)), fault)
    IN  IF f.blocked
          THEN Outcome("blocked", "none", f.c, NoStream, 0, FALSE, NoRequest, << >>)
        ELSE IF ~r.ok
          THEN Outcome("err", IF c.state = "Closed" THEN "closed" ELSE "transport",
                       r.c, NoStream, f.drained, FALSE, r.req, << >>)
        ELSE IF m.blocked
          THEN Outcome("blocked", "none", m.c, NoStream, f.drained, TRUE, r.req,
                       m.stream.seen)
        ELSE IF ~m.ok
          THEN Outcome("err", m.err, m.c, NoStream, f.drained, TRUE, r.req,
                       m.stream.seen)
        ELSE Outcome("ok", "none", m.c, m.stream, f.drained, TRUE, r.req,
                     m.stream.seen)

query_IgnoreMetadataError(c, text, params, resp, fault) ==
    LET f == flush_stream(c, fault)
        r == rpc_perform_query(f.c, "ExecuteSQL", rpc_params(text), params,
                               resp, fault)
        m == forward_to_metadata(r.c, QueryStream_new(Len(r.c.served)), fault)
    IN  IF f.blocked
          THEN Outcome("blocked", "none", f.c, NoStream, 0, FALSE, NoRequest, << >>)
        ELSE IF ~f.ok
          THEN Outcome("err", IF c.state = "Closed" THEN "closed" ELSE "transport",
                       f.c, NoStream, f.drained, FALSE, NoRequest, << >>)
        ELSE IF ~r.ok
          THEN Outcome("err", "transport", r.c, NoStream, f.drained, FALSE,
                       r.req, << >>)
        ELSE IF m.blocked
          THEN Outcome("blocked", "none", m.c, NoStream, f.drained, TRUE, r.req,
                       m.stream.seen)
        ELSE IF ~m.ok /\ m.err = "transport"
          THEN Outcome("err", m.err, m.c, NoStream, f.drained, TRUE, r.req,
                       m.stream.seen)
        ELSE Outcome("ok", "none", m.c,
                     [m.stream EXCEPT !.status = IF @ = "error" THEN "done" ELSE @],
                     f.drained, TRUE, r.req, m.stream.seen)

\* Client::query: drain, assemble and send, read up to the first metadata.
query(c, text, params, resp, fault) ==
    LET f == flush_stream(c, fault)
        r == rpc_perform_query(f.c, "ExecuteSQL", rpc_params(text), params,
                               resp, fault)
        m == forward_to_metadata(r.c, QueryStream_new(Len(r.c.served)), fault)
    IN  IF f.blocked
          THEN Outcome("blocked", "none", f.c, NoStream, 0, FALSE, NoRequest, << >>)
        ELSE IF ~f.ok
          THEN Outcome("err", IF c.state = "Closed" THEN "closed" ELSE "transport",
                       f.c, NoStream, f.drained, FALSE, NoRequest, << >>)
        ELSE IF ~r.ok
          THEN Outcome("err", "transport", r.c, NoStream, f.drained, FALSE,
                       r.req, << >>)
        ELSE IF m.blocked
          THEN Outcome("blocked", "none", m.c, NoStream, f.drained, TRUE, r.req,
                       m.stream.seen)
        ELSE IF ~m.ok
          THEN Outcome("err", m.err, m.c, NoStream, f.drained, TRUE, r.req,
                       m.stream.seen)
        ELSE Outcome("ok", "none", m.c, m.stream, f.drained, TRUE, r.req,
                     m.stream.seen)

\* A variant of close that borrows the client instead of consuming it.
Client_close_Borrowing(c, fault) ==
    LET r == Connection_close(c, fault)
    IN  [ok |-> r.ok, c |-> r.c, client |-> "live"]

\* Client::close: consumes the client and closes the connection.
Client_close(c, fault) ==
    LET r == Connection_close(c, fault)
    IN  [ok |-> r.ok, c |-> r.c, client |-> "closed"]

\* ------------------------------------------------- client/auth.rs
\* Strings are sequences of characters here, so that the escaping of the
\* Debug rendering can be computed.
\* <str as Debug>::fmt, the part between the quotes: a double quote and a
\* backslash are escaped with a backslash.
RECURSIVE escape_debug(_)
escape_debug(chars) ==
    IF chars = << >> THEN ""
    ELSE (IF Head(chars) \in {"\"", "\\"} THEN "\\" \o Head(chars)
          ELSE Head(chars)) \o escape_debug(Tail(chars))

\* <str as Debug>::fmt
str_Debug(chars) == "\"" \o escape_debug(chars) \o "\""

\* AuthMethod::sql_server(user, password)
sql_server(user, password) ==
    [kind |-> "SqlServer", auth |-> [user |-> user, password |-> password]]

\* AuthMethod::None
AuthMethod_None ==
    [kind |-> "None", auth |-> [user |-> << >>, password |-> << >>]]

\* What #[derive(Debug)] would print for SqlServerAuth.
fmt_Derived(a) ==
    "SqlServerAuth { user: " \o str_Debug(a.user)
        \o ", password: " \o str_Debug(a.password) \o " }"

\* <SqlServerAuth as Debug>::fmt: debug_struct("SqlServerAuth") with the
\* fields user and password, the latter given as the &str "<HIDDEN>".
fmt(a) ==
    "SqlServerAuth { user: " \o str_Debug(a.user)
        \o ", password: " \o str_Debug(<< "<HIDDEN>" >>) \o " }"

\* No AuthMethod built, nothing rendered.
NoAuths ==
    [x |-> [m |-> AuthMethod_None, out |-> ""],
     y |-> [m |-> AuthMethod_None, out |-> ""]]

\* ---------------------------------------------------------------- inputs
Stmts == {"SELECT @P1", "SELECT 1"}
Values == {I32(42), I32(7), Bit(1), String("a")}

RECURSIVE SeqsUpTo(_, _)
SeqsUpTo(S, n) ==
    IF n = 0 THEN {<< >>}
    ELSE LET shorter == SeqsUpTo(S, n - 1)
         IN  shorter \cup
             {Append(x, v) : x \in {y \in shorter : Len(y) = n - 1}, v \in S}

\* The calls of Client::query the connection model is driven with.
QueryInputs ==
    { [text |-> "SELECT 1", params |-> << >>],
      [text |-> "SELECT @P1", params |-> << I32(42) >>] }

Faults == {"none", "flush", "send", "read"}

NoCall ==
    [n |-> 0, pre |-> "none", wlen |-> 0, res |-> "none", err |-> "none",
     drained |-> 0, sent |-> FALSE, q |-> 0, parsed |-> << >>,
     end |-> "none", prevEnd |-> "none", prevErr |-> "none",
     ctx |-> Context(Disconnected), assembled |-> FALSE, wend |-> 0,
     flushed |-> FALSE,
     close |-> [pre |-> "none", fault |-> "none", wlen |-> 0, ok |-> FALSE]]

\* ----------------------------------------------------------------- state
Init ==
    /\ conn = Disconnected
    /\ client = "none"
    /\ stream = NoStream
    /\ last = NoCall
    /\ rpc = [text |-> "", values |-> << >>, req |-> NoRequest]
    /\ auth = NoAuths

\* Client::connect(config, tcp_stream)
Connect ==
    /\ conn.state = "Disconnected"
    /\ \E hs \in HandshakeScripts :
          LET r == Client_connect(conn, hs)
          IN  conn' = r.c /\ client' = r.client
    /\ UNCHANGED <<stream, last, rpc, auth>>

\* client.query(text, params).await: the stream of the previous query, if
\* any, was dropped (it borrows the client mutably).
Query ==
    /\ client = "live"
    /\ stream.status = "none"
    /\ last.n < MaxQueries
    /\ \E inp \in QueryInputs, resp \in ResponseShapes, fault \in Faults :
          LET o == query(conn, inp.text, inp.params, resp, fault)
          IN  /\ conn' = o.c
              /\ stream' = o.stream
              /\ client' = IF o.res = "blocked" THEN "blocked" ELSE "live"
              /\ last' = [n |-> last.n + 1, pre |-> conn.state,
                          wlen |-> Len(conn.wire), res |-> o.res, err |-> o.err,
                          drained |-> o.drained, sent |-> o.sent,
                          q |-> IF o.sent THEN Len(o.c.served) ELSE 0,
                          parsed |-> o.parsed, end |-> o.stream.status,
                          prevEnd |-> last.end, prevErr |-> last.err,
                          ctx |-> Context(conn),
                          assembled |-> o.req # NoRequest,
                          wend |-> Len(o.c.wire),
                          flushed |-> flush_stream(conn, fault).ok,
                          close |-> last.close]
              /\ rpc' = IF o.req = NoRequest THEN rpc
                        ELSE [text |-> inp.text, values |-> inp.params,
                              req |-> o.req]
    /\ UNCHANGED auth

\* The consumer pulls the next item of the result stream.
Pull ==
    /\ client = "live"
    /\ stream.status = "open"
    /\ \E fault \in {"none", "read"} :
          LET a == try_next(conn, stream, fault)
          IN  /\ conn' = a.c
              /\ stream' = a.stream
              /\ client' = IF a.blocked THEN "blocked" ELSE "live"
              /\ last' = [last EXCEPT !.end = a.stream.status]
    /\ UNCHANGED <<rpc, auth>>

\* The consumer drops the result stream, exhausted or not.
Drop ==
    /\ client = "live"
    /\ stream.status # "none"
    /\ stream' = NoStream
    /\ last' = [last EXCEPT
                  !.end = IF stream.status = "open" THEN "abandoned" ELSE @]
    /\ UNCHANGED <<conn, client, rpc, auth>>

\* client.close().await
Close ==
    /\ client = "live"
    /\ stream.status = "none"
    /\ \E fault \in {"none", "send"} :
          LET r == Client_close(conn, fault)
          IN  /\ conn' = r.c
              /\ client' = r.client
              /\ last' = [last EXCEPT
                            !.close = [pre |-> conn.state, fault |-> fault,
                                       wlen |-> Len(conn.wire), ok |-> r.ok]]
    /\ UNCHANGED <<stream, rpc, auth>>

Next == Connect \/ Query \/ Pull \/ Drop \/ Close

Spec == Init /\ [][Next]_vars

\* ------------------------------------------- request assembly on its own
\* A connected client whose connection is Ready.
Connected ==
    Client_connect(Disconnected,
                   [prelogin |-> "ok", tls |-> "none", login |-> "LoginAck"])

InitRpc ==
    /\ conn = Connected.c
    /\ client = Connected.client
    /\ stream = NoStream
    /\ last = NoCall
    /\ rpc = [text |-> "", values |-> << >>, req |-> NoRequest]
    /\ auth = NoAuths

\* The request Client::query assembles for (text, params): rpc_params and
\* the assembly part of rpc_perform_query, without the send.
AssembleRpc ==
    /\ \E text \in Stmts, params \in SeqsUpTo(Values, MaxParams) :
          LET a == AssembleRequest(conn, "ExecuteSQL", rpc_params(text), params)
          IN  /\ conn' = a.c
              /\ rpc' = [text |-> text, values |-> params, req |-> a.req]
    /\ UNCHANGED <<client, stream, last, auth>>

NextRpc == AssembleRpc

SpecRpc == InitRpc /\ [][NextRpc]_vars

\* ------------------------------------------------ the send step on its own
\* Values of the packet-id counter of a connected client: after the
\* handshake, and after enough requests to be near the end of its range.
StartIds == {2, 253, 254, 255}

\* The short responses of ResponseShapes.
SendShapes == {shape \in ResponseShapes : Len(shape) <= 3}

InitSend ==
    /\ \E id \in StartIds : conn = [Connected.c EXCEPT !.packet_id = id]
    /\ client = Connected.client
    /\ stream = NoStream
    /\ last = NoCall
    /\ rpc = [text |-> "", values |-> << >>, req |-> NoRequest]
    /\ auth = NoAuths

\* rpc_perform_query on a Ready connection (as Client::query calls it after
\* the drain).
RpcSend ==
    /\ conn.state = "Ready"
    /\ last.n < MaxQueries
    /\ \E inp \in QueryInputs, resp \in SendShapes, fault \in {"none", "send"} :
          LET r == rpc_perform_query(conn, "ExecuteSQL", rpc_params(inp.text),
                                     inp.params, resp, fault)
          IN  /\ conn' = r.c
              /\ rpc' = [text |-> inp.text, values |-> inp.params,
                         req |-> r.req]
              /\ last' = [NoCall EXCEPT
                            !.n = last.n + 1, !.pre = conn.state,
                            !.wlen = Len(conn.wire),
                            !.res = IF r.ok THEN "ok" ELSE "err",
                            !.err = IF r.ok THEN "none" ELSE "transport",
                            !.sent = r.ok,
                            !.q = IF r.ok THEN Len(r.c.served) ELSE 0,
                            !.ctx = Context(conn), !.assembled = TRUE,
                            !.wend = Len(r.c.wire), !.flushed = TRUE]
    /\ UNCHANGED <<client, stream, auth>>

\* The response in flight is read to its terminal Done.
Drain ==
    /\ conn.state = "Busy"
    /\ conn' = flush_stream(conn, "none").c
    /\ UNCHANGED <<client, stream, last, rpc, auth>>

NextSend == RpcSend \/ Drain

SpecSend == InitSend /\ [][NextSend]_vars

\* ----------------------------------------------- credentials on their own
\* The characters of user names and passwords: a plain one, and the two
\* that the Debug rendering of a string escapes.
AuthChars == {"a", "\"", "\\"}

Users == SeqsUpTo(AuthChars, MaxUserLen)
Passwords == {<< "a" >>, << "p", "\"" >>}

InitAuth ==
    /\ conn = Disconnected
    /\ client = "none"
    /\ stream = NoStream
    /\ last = NoCall
    /\ rpc = [text |-> "", values |-> << >>, req |-> NoRequest]
    /\ auth = NoAuths

\* AuthMethod::sql_server(user, password), kept as x or as y.
NewAuth ==
    /\ \E slot \in {"x", "y"}, user \in Users, password \in Passwords :
          auth' = [auth EXCEPT
                     ![slot] = [m |-> sql_server(user, password), out |-> ""]]
    /\ UNCHANGED <<conn, client, stream, last, rpc>>

\* format!("{:?}", a) for the SqlServerAuth a held by x or by y.
DebugFmt ==
    /\ \E slot \in {"x", "y"} :
          /\ auth[slot].m.kind = "SqlServer"
          /\ auth' = [auth EXCEPT ![slot].out = fmt(auth[slot].m.auth)]
    /\ UNCHANGED <<conn, client, stream, last, rpc>>

NextAuth == NewAuth \/ DebugFmt

SpecAuth == InitAuth /\ [][NextAuth]_vars

\* ================================================================ claims
\* The wire log and the responses the server emitted, by request number.
wire == conn.wire
served == conn.served

\* Token i of response q was read from the transport before log position p.
ReadBefore(p, q, i) ==
    \E r \in 1..(p - 1) : wire[r].op = "r" /\ wire[r].q = q /\ wire[r].i = i

\* The request whose write is the latest before log position p (0 if none).
WrittenBefore(p) ==
    LET ws == {r \in 1..(p - 1) : wire[r].op = "w"}
    IN  IF ws = {} THEN 0 ELSE wire[CHOOSE r \in ws : \A x \in ws : x <= r].q

\* C1 (single-flight): a request is written only after every token of every
\* earlier request's response has been read; and every token read belongs to
\* the response of the request written last, so that the bytes of two
\* queries never interleave on the wire.
C1_SingleFlight ==
    \A p \in 1..Len(wire) :
        /\ wire[p].op = "w" =>
              \A k \in 1..(wire[p].q - 1) :
                  \A i \in 1..Len(served[k]) : ReadBefore(p, k, i)
        /\ wire[p].op = "r" => wire[p].q = WrittenBefore(p)

\* A second request was written after the first stream was abandoned with
\* part of its response unread.
C1_Witness ==
    /\ last.n >= 2 /\ last.sent /\ last.q = 2
    /\ last.prevEnd = "abandoned" /\ last.drained > 0

\* C2 (no desynchronisation after an abandoned stream): the tokens parsed for
\* query k+1, by query itself and by the stream it returns, are tokens of
\* response k+1 only, starting at its first token; what is left inbound
\* after the query belongs to response k+1 too.
C2_NoDesync ==
    /\ \A j \in 1..Len(last.parsed) :
          last.parsed[j].q = last.q /\ (j = 1 => last.parsed[j].i = 1)
    /\ stream.status # "none" =>
          /\ stream.q = last.q
          /\ \A j \in 1..Len(stream.seen) :
                stream.seen[j].q = stream.q /\ (j = 1 => stream.seen[j].i = 1)
          /\ \A j \in 1..Len(conn.inbound) : conn.inbound[j].q = stream.q

\* The stream of the first query was abandoned before exhaustion and the
\* stream of the second query has delivered tokens.
C2_Witness ==
    /\ last.n = 2 /\ last.prevEnd = "abandoned" /\ last.drained > 0
    /\ stream.status # "none" /\ stream.q = 2 /\ Len(stream.seen) >= 2

\* C3 (Ready after exhaustion): a query issued after the previous stream was
\* consumed to its terminal Done drains nothing, reads nothing before its
\* write, and reaches the write: the first thing it does on the wire is to
\* write its request (nothing at all when the transport fails at that
\* write).
C3_ReadyAfterExhaustion ==
    last.prevEnd \in {"done", "error"} =>
        /\ last.pre = "Ready"
        /\ last.drained = 0
        /\ last.res # "blocked"
        /\ last.sent => /\ Len(wire) > last.wlen
                        /\ wire[last.wlen + 1].op = "w"
                        /\ wire[last.wlen + 1].q = last.q
        /\ ~last.sent => last.err = "transport" /\ Len(wire) = last.wlen

\* A query whose predecessor's stream was consumed to its terminal Done has
\* written its request.
C3_Witness ==
    /\ last.n >= 2 /\ last.prevEnd = "done" /\ last.sent /\ last.res = "ok"
    /\ Len(served[last.q - 1]) = 3

HasError(resp) == \E i \in 1..Len(resp) : resp[i].ty = "Err"

\* C4 (a server error fails the query, not the connection): a query whose
\* response holds an Error token and was read to its end ended with the
\* server's error, never as a success; the connection is then Ready, not
\* Closed; and the next query is not refused: unless the transport fails it
\* writes its request and parses its own response from the first token.
C4_ServerErrorRecoverable ==
    /\ last.end = "done" => ~HasError(served[last.q])
    /\ (last.end = "error" \/ last.err = "server") =>
          /\ HasError(served[last.q])
          /\ client = "live" => conn.state = "Ready"
    /\ (last.prevEnd = "error" \/ last.prevErr = "server") =>
          /\ last.pre = "Ready"
          /\ last.err # "closed"
          /\ last.err # "transport" =>
                /\ last.sent
                /\ \A j \in 1..Len(last.parsed) :
                      last.parsed[j] = served[last.q][j]

\* A query failed with the server's error and the next query on the same
\* client returned a stream.
C4_Witness ==
    /\ last.n >= 2 /\ last.res = "ok" /\ last.sent
    /\ (last.prevEnd = "error" \/ last.prevErr = "server")
    /\ Len(last.parsed) > 0

\* C5 (Closed is absorbing): from a Closed connection every step leaves it
\* Closed, writes nothing and reads nothing; a query made on it fails with
\* the closed error without sending.
C5_ClosedAbsorbing ==
    [][conn.state = "Closed" =>
          /\ conn'.state = "Closed"
          /\ conn'.wire = conn.wire
          /\ conn'.inbound = conn.inbound
          /\ last'.n # last.n =>
                last'.res = "err" /\ last'.err = "closed" /\ ~last'.sent]_vars

\* A query was made on a connection closed by a fatal error while part of a
\* response was still inbound.
C5_Witness ==
    /\ conn.state = "Closed" /\ last.pre = "Closed" /\ last.n >= 2
    /\ Len(conn.inbound) > 0

\* C6 (a Client only after LoginAcknowledgment): whenever a Client exists the
\* handshake ended with a LoginAcknowledgment; after a handshake that ended
\* otherwise there is no Client, no query was made, nothing of a request is
\* on the wire and the connection is Closed.
C6_ClientOnlyAfterLoginAck ==
    /\ client # "none" => conn.login = "LoginAck"
    /\ (conn.state # "Disconnected" /\ conn.login # "LoginAck") =>
          /\ client = "none"
          /\ conn.state = "Closed"
          /\ last.n = 0
          /\ wire = << >>

\* The server answered the login with an Error token.
C6_Witness == conn.login = "Error" /\ conn.state = "Closed" /\ client = "none"

\* The name the i-th bound value (1-based) is to carry, written out.
ExpectedName == << "@P1", "@P2", "@P3", "@P4", "@P5", "@P6" >>

\* C7 (the RPC parameter list): for n bound values the list is
\* [stmt, params, @P1, ..., @Pn], of length n + 2; the i-th bound value
\* (0-based) sits at position i + 2, is named "@P" followed by i + 1 and
\* carries the value unchanged; no name is repeated.
C7_ParamList ==
    rpc.req # NoRequest =>
        LET n  == Len(rpc.values)
            ps == rpc.req.params
        IN  /\ Len(ps) = n + 2
            /\ ps[1].name = "stmt" /\ ps[2].name = "params"
            /\ \A i \in 0..(n - 1) :
                  /\ ps[i + 3].name = ExpectedName[i + 1]
                  /\ ps[i + 3].value = rpc.values[i + 1]
            /\ \A a, b \in 1..Len(ps) : ps[a].name = ps[b].name => a = b

\* A request with MaxParams bound values of different types was assembled.
C7_Witness ==
    /\ rpc.req # NoRequest /\ Len(rpc.values) >= 3
    /\ rpc.values[1] # rpc.values[2]
    /\ Len(rpc.req.params) = Len(rpc.values) + 2

\* The SQL type name of a bound value, written out.
ExpectedType(v) ==
    IF v.ty = "I32" THEN "int" ELSE IF v.ty = "Bit" THEN "bit" ELSE "nvarchar(4000)"

\* The signature of the first n bound values: the entries joined by ",".
RECURSIVE ExpectedSignature(_, _)
ExpectedSignature(values, n) ==
    IF n = 0 THEN ""
    ELSE LET entry == ExpectedName[n] \o " " \o ExpectedType(values[n])
         IN  IF n = 1 THEN entry
             ELSE ExpectedSignature(values, n - 1) \o "," \o entry

\* C8 (the "params" signature): the value of "params" is the string of the
\* entries "@P<i+1> <type name>", in order, joined by "," with no leading or
\* trailing separator (empty for no bound value), not the placeholder 0;
\* "stmt" holds the query text unchanged; query("SELECT @P1", [42i32]) gives
\* stmt = "SELECT @P1", params = "@P1 int", @P1 = 42.
C8_ParamsSignature ==
    rpc.req # NoRequest =>
        LET ps == rpc.req.params
        IN  /\ ps[1] = RpcParam("stmt", String(rpc.text))
            /\ ps[2] = RpcParam("params",
                    String(ExpectedSignature(rpc.values, Len(rpc.values))))
            /\ (rpc.text = "SELECT @P1" /\ rpc.values = << I32(42) >>) =>
                  ps = << RpcParam("stmt", String("SELECT @P1")),
                          RpcParam("params", String("@P1 int")),
                          RpcParam("@P1", I32(42)) >>

\* A request with two bound values was assembled: its signature holds one
\* separator.
C8_Witness ==
    /\ rpc.req # NoRequest
    /\ rpc.values = << I32(42), String("a") >>
    /\ rpc.req.params[2].value = String("@P1 int,@P2 nvarchar(4000)")

\* The transaction descriptor in force after responses 1..k were processed.
RECURSIVE DescriptorAfter(_)
DescriptorAfter(k) ==
    IF k = 0 THEN InitialDescriptor
    ELSE LET envs == {i \in 1..Len(served[k]) : served[k][i].ty = "Env"}
         IN  IF envs = {} THEN DescriptorAfter(k - 1)
             ELSE served[k][CHOOSE i \in envs : \A j \in envs : j <= i].val

\* C9 (the descriptor echoed): the descriptor written with request k+1 is the
\* one in force after every token of responses 1..k, consumed by the caller
\* or not; once response k is read to its end the context holds it.
C9_DescriptorEchoed ==
    /\ \A p \in 1..Len(wire) :
          wire[p].op = "w" => wire[p].td = DescriptorAfter(wire[p].q - 1)
    /\ (last.sent /\ rpc.req # NoRequest) =>
          rpc.req.transaction_descriptor = DescriptorAfter(last.q - 1)
    /\ conn.state = "Ready" =>
          conn.transaction_descriptor = DescriptorAfter(Len(served))

\* The EnvironmentChange of response 1 lay in the part the caller never
\* consumed, and request 2 carries the descriptor it issued.
C9_Witness ==
    /\ last.n = 2 /\ last.sent /\ last.q = 2 /\ last.prevEnd = "abandoned"
    /\ last.drained = 3
    /\ served[1][3].ty = "Env"
    /\ wire[last.wlen + last.drained + 1].op = "w"
    /\ wire[last.wlen + last.drained + 1].td = served[1][3].val

\* C10 (token order): the tokens a result stream has delivered are, in
\* order, the first tokens of the response to its own request: a prefix of
\* what the server emitted, nothing reordered, repeated or skipped.
C10_TokenOrder ==
    /\ stream.status # "none" =>
          /\ Len(stream.seen) <= Len(served[stream.q])
          /\ \A j \in 1..Len(stream.seen) :
                stream.seen[j] = served[stream.q][j]
    /\ last.sent =>
          /\ Len(last.parsed) <= Len(served[last.q])
          /\ \A j \in 1..Len(last.parsed) : last.parsed[j] = served[last.q][j]

\* A response of two result sets was delivered up into its second result
\* set by a stream that followed an abandoned one.
C10_Witness ==
    /\ stream.status = "open" /\ stream.q = 2 /\ Len(stream.seen) = 5
    /\ stream.seen[3].ty = "DoneMore" /\ stream.seen[5].ty = "Row"
    /\ last.prevEnd = "abandoned"

\* The number of tokens of kind ty in toks.
CountOf(toks, ty) == Cardinality({i \in 1..Len(toks) : toks[i].ty = ty})

\* C11 (errors and infos are collected): reading an Error or Info token does
\* not end the stream; the stream holds every one it has read, and when it
\* ends, at the terminal Done, it holds all of the response's; the response
\* is reported failed exactly when it holds an Error token, whatever
\* followed that token.
C11_ErrorsCollected ==
    /\ stream.status \in {"open", "done", "error"} =>
          /\ stream.errors = CountOf(stream.seen, "Err")
          /\ stream.infos = CountOf(stream.seen, "Info")
    /\ stream.status \in {"done", "error"} =>
          /\ stream.seen = served[stream.q]
          /\ stream.status = "error" <=> HasError(served[stream.q])
    /\ last.err = "server" =>
          last.parsed = served[last.q] /\ HasError(served[last.q])
    /\ (last.res = "ok" /\ last.end \in {"done", "error"}) =>
          (last.end = "error" <=> HasError(served[last.q]))

\* A stream read two Error tokens with a row between them and failed at the
\* terminal Done.
C11_Witness ==
    /\ stream.status = "error" /\ stream.errors = 2
    /\ stream.seen[2].ty = "Err" /\ stream.seen[3].ty = "Row"
    /\ stream.seen[Len(stream.seen)].ty = "Done"

\* C12 (building a request has no effect on the connection): a step that
\* assembles a request (rpc_params and the parameter list of
\* rpc_perform_query) writes nothing to the transport, reads nothing from
\* it, and leaves the connection, its context included, the client and the
\* stream as they were.
C12_AssemblyFrame ==
    [][rpc' # rpc =>
          /\ conn'.wire = conn.wire
          /\ conn'.inbound = conn.inbound
          /\ conn' = conn
          /\ client' = client
          /\ stream' = stream]_vars

\* A request with two bound values was assembled on the connected client.
C12_Witness ==
    /\ rpc.req.proc_id = "ExecuteSQL" /\ Len(rpc.values) = 2
    /\ Len(rpc.req.params) = 4
    /\ conn = Connected.c /\ conn.wire = << >>

\* An EnvironmentChange token was read from the transport after log
\* position p.
EnvReadSince(p) ==
    \E r \in (p + 1)..Len(wire) :
        wire[r].op = "r" /\ served[wire[r].q][wire[r].i].ty = "Env"

\* The new value of the last EnvironmentChange token read after position p.
LastEnvSince(p) ==
    LET rs == {r \in (p + 1)..Len(wire) :
                  wire[r].op = "r" /\ served[wire[r].q][wire[r].i].ty = "Env"}
        r0 == CHOOSE r \in rs : \A x \in rs : x <= r
    IN  served[wire[r0].q][wire[r0].i].val

\* The claim C13 as stated: a query that was sent, whose response holds no
\* EnvironmentChange token and during which none was read, leaves every
\* field of the context as it was before the call.
C13_AsStated ==
    (/\ last.n > 0 /\ last.sent
     /\ \A i \in 1..Len(served[last.q]) : served[last.q][i].ty # "Env"
     /\ ~EnvReadSince(last.wlen)) =>
        Context(conn) = last.ctx

\* C13 (the context changes only by EnvironmentChange, negotiation, and the
\* packet id each request takes): from the call of a query on, the packet
\* size is the one before the call; the transaction descriptor is the one
\* before the call while no EnvironmentChange token has been read, and the
\* value of the last one read otherwise; the packet-id counter is one more
\* (modulo 256) than before the call when the query reached the send step,
\* and the one before the call when it did not.
C13_ContextFrame ==
    last.n > 0 =>
        /\ conn.packet_size = last.ctx.packet_size
        /\ conn.transaction_descriptor =
              IF EnvReadSince(last.wlen) THEN LastEnvSince(last.wlen)
              ELSE last.ctx.transaction_descriptor
        /\ conn.packet_id =
              IF last.assembled
                THEN (last.ctx.packet_id + 1) % PacketIdRange
                ELSE last.ctx.packet_id

\* A query was sent, its response, which holds no EnvironmentChange token,
\* was read to its terminal Done, and no such token was read meanwhile.
C13_Witness ==
    /\ last.n > 0 /\ last.sent /\ stream.status = "done"
    /\ \A i \in 1..Len(served[last.q]) : served[last.q][i].ty # "Env"
    /\ ~EnvReadSince(last.wlen)
    /\ conn.packet_id = last.ctx.packet_id + 1
    /\ conn.packet_size = NegotiatedPacketSize

\* C14 (close always releases the transport): once close was called the
\* client is gone, the connection is Closed and its transport released,
\* whether the connection was healthy or not and whether the send of the
\* shutdown notice succeeded or not; the notice was written, as the last
\* thing on the wire, exactly when the connection was not Closed and the
\* send did not fail, and nothing else was written or read; and no step
\* follows a close.
C14_CloseReleases ==
    /\ [](last.close.pre # "none" =>
            /\ client = "closed"
            /\ conn.state = "Closed" /\ conn.released
            /\ (last.close.pre # "Closed" /\ last.close.fault = "none") =>
                  /\ last.close.ok
                  /\ Len(wire) = last.close.wlen + 1
                  /\ wire[Len(wire)].op = "x"
            /\ (last.close.pre = "Closed" \/ last.close.fault = "send") =>
                  /\ ~last.close.ok
                  /\ Len(wire) = last.close.wlen)
    /\ [][last.close.pre = "none" /\ client # "closed"]_vars

\* The client was closed while its connection was Busy with an abandoned
\* response, and the send of the shutdown notice failed.
C14_Witness ==
    /\ client = "closed" /\ last.close.pre = "Busy"
    /\ last.close.fault = "send" /\ ~last.close.ok
    /\ conn.state = "Closed" /\ conn.released /\ Len(conn.inbound) > 0

\* The log positions of the requests written.
Writes == {p \in 1..Len(wire) : wire[p].op = "w"}

\* C15 (packet ids): a request that reaches the send step takes exactly one
\* packet id, before the send: the id it is written with is the counter's
\* value before the call, and the counter is one further after the call,
\* also when the send failed; the ids of successive requests advance by one
\* modulo 256, so that 0 follows 255, and every id and the counter stay in
\* 0..255.
C15_PacketIds ==
    /\ conn.packet_id \in 0..(PacketIdRange - 1)
    /\ \A p \in Writes : wire[p].id \in 0..(PacketIdRange - 1)
    /\ \A p, r \in Writes :
          wire[r].q = wire[p].q + 1 =>
              wire[r].id = (wire[p].id + 1) % PacketIdRange
    /\ (last.n > 0 /\ last.assembled) =>
          /\ conn.packet_id = (last.ctx.packet_id + 1) % PacketIdRange
          /\ last.sent =>
                /\ wire[last.wlen + last.drained + 1].op = "w"
                /\ wire[last.wlen + last.drained + 1].id = last.ctx.packet_id
          /\ ~last.sent => last.wend = last.wlen + last.drained

\* A request was written with packet id 255 and the next one with id 0.
C15_Witness ==
    \E p, r \in Writes :
        /\ wire[r].q = wire[p].q + 1
        /\ wire[p].id = PacketIdRange - 1 /\ wire[r].id = 0

\* The log entries of the last call of query: positions wlen+1 .. wend.
CallEvents == (last.wlen + 1)..last.wend

\* C16 (order of the steps of query, and where it stops): what a call of
\* query does on the wire is, in this order: the reads that drain the
\* previous response, the write of its request with the packet id the
\* counter held before the call, and the reads of its own response up to
\* the first column metadata (or the terminal Done).  When the drain fails
\* the call returns an error, nothing is written or read, and the packet-id
\* counter is not advanced.  When the send fails the call returns an error,
\* nothing is read after the drain and no stream is returned.
C16_StepOrder ==
    last.n > 0 =>
        /\ \A p \in CallEvents :
              /\ p <= last.wlen + last.drained =>
                    wire[p].op = "r" /\ wire[p].q < Len(served) + 1
                                     /\ (last.sent => wire[p].q < last.q)
              /\ p = last.wlen + last.drained + 1 =>
                    /\ last.sent
                    /\ wire[p].op = "w" /\ wire[p].q = last.q
                    /\ wire[p].id = last.ctx.packet_id
              /\ p > last.wlen + last.drained + 1 =>
                    /\ wire[p].op = "r" /\ wire[p].q = last.q
                    /\ wire[p].i = p - (last.wlen + last.drained + 1)
        /\ last.sent =>
              /\ last.wend = last.wlen + last.drained + 1 + Len(last.parsed)
              /\ \A j \in 1..Len(last.parsed) :
                    (j < Len(last.parsed)) <=>
                        (last.parsed[j].ty \notin {"CM", "Done"})
        /\ (~last.flushed /\ last.res # "blocked") =>
              /\ last.res = "err" /\ last.err \in {"closed", "transport"}
              /\ ~last.assembled /\ ~last.sent
              /\ last.wend = last.wlen
              /\ conn.wire = SubSeq(conn.wire, 1, last.wlen)
              /\ conn.packet_id = last.ctx.packet_id
              /\ last.end = "none"
        /\ (last.flushed /\ ~last.sent) =>
              /\ last.assembled
              /\ last.res = "err" /\ last.err = "transport"
              /\ last.wend = last.wlen + last.drained
              /\ Len(conn.wire) = last.wend
              /\ last.parsed = << >>
              /\ last.end = "none" /\ stream = NoStream

\* A query drained the abandoned response, then failed at the send: the
\* drained tokens are the last entries of the wire log.
C16_Witness ==
    /\ last.n >= 2 /\ last.flushed /\ last.drained > 0
    /\ last.assembled /\ ~last.sent /\ last.res = "err"
    /\ conn.packet_id = last.ctx.packet_id + 1

\* C17 (the Debug rendering hides the password): two SqlServerAuth values
\* with the same user render identically whatever their passwords, and two
\* with different users render differently; the rendering of user a is
\* SqlServerAuth { user: "a", password: "<HIDDEN>" }, and a double quote in
\* the user is escaped.
C17_DebugHidesPassword ==
    /\ (auth.x.out # "" /\ auth.y.out # "") =>
          (auth.x.m.auth.user = auth.y.m.auth.user <=> auth.x.out = auth.y.out)
    /\ \A slot \in {"x", "y"} :
          auth[slot].out # "" =>
              /\ auth[slot].m.auth.user = << "a" >> =>
                    auth[slot].out =
                        "SqlServerAuth { user: \"a\", password: \"<HIDDEN>\" }"
              /\ auth[slot].m.auth.user = << "\"" >> =>
                    auth[slot].out =
                        "SqlServerAuth { user: \"\\\"\", password: \"<HIDDEN>\" }"

\* Two values with the same user and different passwords were rendered.
C17_Witness ==
    /\ auth.x.out # "" /\ auth.y.out # ""
    /\ auth.x.m.auth.user = << "a", "\"" >>
    /\ auth.y.m.auth.user = auth.x.m.auth.user
    /\ auth.x.m.auth.password # auth.y.m.auth.password
    /\ auth.x.out = auth.y.out

====
